---- MODULE Spec2Model ----
(***************************************************************************)
(* Model of server.py: a static file server built on http.server and       *)
(* socketserver.  The process changes directory, parses an optional port   *)
(* argument, and start_server binds a TCPServer, retrying recursively on   *)
(* port + 1 when bind raises OSError with errno 48.  While serving, every   *)
(* request goes through CustomHTTPRequestHandler (end_headers, guess_type). *)
(*                                                                         *)
(* Strings that the code inspects character by character (the port         *)
(* argument, request paths) are sequences of one-character strings.        *)
(***************************************************************************)
EXTENDS Integers, Sequences, FiniteSets, TLC

VARIABLES
    platform,     \* operating system the interpreter runs on (fixes errno numbers)
    argv,         \* sys.argv[1:], each argument a sequence of characters
    invokedFrom,  \* working directory of the caller
    cwd,          \* current working directory of the process
    pc,           \* "main", "start_server", "serving" or "exited"
    port,         \* argument of the innermost start_server call
    frames,       \* Python frames on the call stack (module frame included)
    sockets,      \* ports of the server sockets the process holds open
    exitStatus,   \* process exit status, NotExited while running
    firstPort,    \* port given to the outermost start_server call
    lastTried,    \* port passed to the most recent bind attempt
    nTried,       \* number of bind attempts made
    lastBind,     \* what the most recent TCPServer construction ended in
    last          \* outcome of the most recently handled request

vars == <<platform, argv, invokedFrom, cwd, pc, port, frames, sockets,
          exitStatus, firstPort, lastTried, nTried, lastBind, last>>

----------------------------------------------------------------------------
(* Program and runtime constants *)

DefaultPort == 8000
RetryErrno == 48
MaxPort == 65535
CtorFrames == 2

(* The interpreter's recursion limit, sys.getrecursionlimit().  CPython's *)
(* default is 1000; the model runs with a shallow stack so that the       *)
(* retry chain of start_server reaches the limit within a few calls.      *)
RecursionLimit == 8
NotExited == -1
NoPort == -1

ScriptDir == "script_dir"
CallerDirs == {"script_dir", "other_dir"}

Platforms == {"darwin", "linux"}

(* errno carried by the OSError that bind raises, per platform and reason *)
ErrnoOf(plat, reason) ==
    CASE reason = "in_use" /\ plat = "darwin"  -> 48
      [] reason = "in_use" /\ plat = "linux"   -> 98
      [] reason = "denied"                     -> 13
      [] OTHER                                 -> 24

BindFailureReasons == {"in_use", "denied", "no_descriptors"}

----------------------------------------------------------------------------
(* int(sys.argv[1]) *)

(* Arguments tried: every string over ArgAlphabet of at most MaxArgLen    *)
(* characters, and the longer ArgSamples.                                 *)
MaxArgLen == 2
ArgAlphabet == {"7", "-", "a", "_"}
ArgSamples == { <<"6","5","5","3","5">>, <<"7","0","0","0","0">>,
                <<" ","+","7"," ">>, <<"7",".","5">>, <<"0">> }

RECURSIVE StringsUpTo(_)
StringsUpTo(n) ==
    IF n = 0 THEN { <<>> }
    ELSE LET shorter == StringsUpTo(n - 1)
         IN  shorter \cup { Append(s, c) : s \in {t \in shorter : Len(t) = n - 1},
                                           c \in ArgAlphabet }

ArgStrings == StringsUpTo(MaxArgLen) \cup ArgSamples

DigitChars == {"0", "1", "2", "3", "4", "5", "6", "7", "8", "9"}
SpaceChars == {" "}
SignChars == {"+", "-"}

DigitVal(c) ==
    CASE c = "0" -> 0 [] c = "1" -> 1 [] c = "2" -> 2 [] c = "3" -> 3
      [] c = "4" -> 4 [] c = "5" -> 5 [] c = "6" -> 6 [] c = "7" -> 7
      [] c = "8" -> 8 [] c = "9" -> 9

RECURSIVE LStrip(_)
LStrip(s) == IF s # <<>> /\ Head(s) \in SpaceChars THEN LStrip(Tail(s)) ELSE s

RECURSIVE RStrip(_)
RStrip(s) ==
    IF s # <<>> /\ s[Len(s)] \in SpaceChars
    THEN RStrip(SubSeq(s, 1, Len(s) - 1)) ELSE s

(* Scans the digits of an int() literal left to right.  prev is "start",  *)
(* "digit" or "underscore"; the result is -1 when the literal is invalid. *)
RECURSIVE ScanDigits(_, _, _)
ScanDigits(s, acc, prev) ==
    IF s = <<>> THEN (IF prev = "digit" THEN acc ELSE -1)
    ELSE IF Head(s) \in DigitChars
         THEN ScanDigits(Tail(s), acc * 10 + DigitVal(Head(s)), "digit")
    ELSE IF Head(s) = "_" /\ prev = "digit"
         THEN ScanDigits(Tail(s), acc, "underscore")
    ELSE -1

(* int(s): [ok |-> TRUE, val |-> n], or ok = FALSE for ValueError *)
ParseInt(s) ==
    LET t    == RStrip(LStrip(s))
        neg  == t # <<>> /\ Head(t) = "-"
        body == IF t # <<>> /\ Head(t) \in SignChars THEN Tail(t) ELSE t
        mag  == ScanDigits(body, 0, "start")
    IN  IF mag < 0 THEN [ok |-> FALSE, val |-> 0]
        ELSE [ok |-> TRUE, val |-> IF neg THEN 0 - mag ELSE mag]

----------------------------------------------------------------------------

----------------------------------------------------------------------------
(* CustomHTTPRequestHandler *)

Versions == {"HTTP/0.9", "HTTP/1.0", "HTTP/1.1"}

FixedHeaders ==
    << <<"Cross-Origin-Embedder-Policy", "require-corp">>,
       <<"Cross-Origin-Opener-Policy", "same-origin">>,
       <<"Access-Control-Allow-Origin", "*">>,
       <<"Access-Control-Allow-Methods", "GET, POST, OPTIONS">>,
       <<"Access-Control-Allow-Headers", "Content-Type">> >>

(* self.send_header(keyword, value): the delegate buffers a header only   *)
(* when the request is not an HTTP/0.9 simple request.                    *)
SendHeader(buf, version, h) ==
    IF version # "HTTP/0.9" THEN Append(buf, h) ELSE buf

(* Fault variant of end_headers: the last send_header call is missing. *)
EndHeadersWithoutLast(buf, version) ==
    LET b1 == SendHeader(buf, version, FixedHeaders[1])
        b2 == SendHeader(b1, version, FixedHeaders[2])
        b3 == SendHeader(b2, version, FixedHeaders[3])
        b4 == SendHeader(b3, version, FixedHeaders[4])
    IN  b4

(* end_headers: five send_header calls, then super().end_headers() *)
EndHeaders(buf, version) ==
    LET b1 == SendHeader(buf, version, FixedHeaders[1])
        b2 == SendHeader(b1, version, FixedHeaders[2])
        b3 == SendHeader(b2, version, FixedHeaders[3])
        b4 == SendHeader(b3, version, FixedHeaders[4])
        b5 == SendHeader(b4, version, FixedHeaders[5])
    IN  b5

EndsWith(s, suffix) ==
    /\ Len(s) >= Len(suffix)
    /\ SubSeq(s, Len(s) - Len(suffix) + 1, Len(s)) = suffix

DotJs == <<".","j","s">>
DotWasm == <<".","w","a","s","m">>
DotHtml == <<".","h","t","m","l">>
DotGz == <<".","g","z">>
ApplicationJavascript == <<"a","p","p","l","i","c","a","t","i","o","n","/","j","a","v","a","s","c","r","i","p","t">>
ApplicationWasm == <<"a","p","p","l","i","c","a","t","i","o","n","/","w","a","s","m">>
ApplicationGzip == <<"a","p","p","l","i","c","a","t","i","o","n","/","g","z","i","p">>
ApplicationOctetStream == <<"a","p","p","l","i","c","a","t","i","o","n","/","o","c","t","e","t","-","s","t","r","e","a","m">>
TextJavascript == <<"t","e","x","t","/","j","a","v","a","s","c","r","i","p","t">>
TextHtml == <<"t","e","x","t","/","h","t","m","l">>

Lower(c) ==
    CASE c = "J" -> "j" [] c = "S" -> "s" [] OTHER -> c

(* posixpath.splitext(path)[1]: from the last dot of the last component,  *)
(* leading dots of that component not counted.                            *)
SplitExt(path) ==
    LET slashes == {i \in 1..Len(path) : path[i] = "/"}
        start   == IF slashes = {} THEN 1
                   ELSE 1 + CHOOSE i \in slashes : \A j \in slashes : j <= i
        dots    == {i \in start..Len(path) :
                      /\ path[i] = "."
                      /\ \E j \in start..(i - 1) : path[j] # "."}
    IN  IF dots = {} THEN <<>>
        ELSE SubSeq(path, CHOOSE i \in dots : \A j \in dots : j <= i, Len(path))

(* super().guess_type(path): SimpleHTTPRequestHandler.guess_type looks    *)
(* the extension up, then its lower-cased form, and returns one str.      *)
SuperGuessType(path) ==
    LET ext   == SplitExt(path)
        lower == [i \in 1..Len(ext) |-> Lower(ext[i])]
    IN  CASE ext = DotGz      -> ApplicationGzip
          [] lower = DotGz    -> ApplicationGzip
          [] lower = DotJs    -> TextJavascript
          [] lower = DotWasm  -> ApplicationWasm
          [] lower = DotHtml  -> TextHtml
          [] OTHER            -> ApplicationOctetStream

(* guess_type(path), lines 23-30.  `mimetype, encoding = <str>` unpacks   *)
(* the characters of the str and raises ValueError unless there are two.  *)
GuessType(path) ==
    LET r == SuperGuessType(path)
    IN  IF Len(r) # 2
        THEN [raised |-> TRUE, mimetype |-> <<>>, encoding |-> <<>>]
        ELSE [raised   |-> FALSE,
              mimetype |-> IF EndsWith(path, DotJs) THEN ApplicationJavascript
                           ELSE IF EndsWith(path, DotWasm) THEN ApplicationWasm
                           ELSE <<r[1]>>,
              encoding |-> <<r[2]>>]

Paths == { <<"/","a",".","j","s">>,
           <<"/","m",".","w","a","s","m">>,
           <<"/","p",".","h","t","m","l">>,
           <<"/","a",".","J","S">>,
           <<"/","a",".","j","s",".","g","z">>,
           <<"/","j","s">>,
           <<"/",".","j","s">>,
           <<"/","d">>,
           <<"/","d","/">> }

IndexName == <<"i","n","d","e","x",".","h","t","m","l">>

Blank ==
    [kind |-> "none", version |-> "HTTP/0.9", status |-> 0, headers |-> <<>>,
     guessed |-> FALSE, gpath |-> <<>>, graised |-> FALSE, gtype |-> <<>>]

(* send_response(code): status line, Server and Date headers *)
SendResponse(version) ==
    SendHeader(SendHeader(<<>>, version, <<"Server", "SimpleHTTP">>),
               version, <<"Date", "now">>)

Responded(version, status, headers) ==
    [Blank EXCEPT !.kind = "response", !.version = version, !.status = status,
                  !.headers = headers]

(* send_error(code): send_response, Connection, Content-Type and          *)
(* Content-Length headers, end_headers, body.                             *)
SendError(version, code) ==
    LET b0 == SendResponse(version)
        b1 == SendHeader(b0, version, <<"Connection", "close">>)
        b2 == SendHeader(b1, version, <<"Content-Type", "text/html;charset=utf-8">>)
        b3 == SendHeader(b2, version, <<"Content-Length", "n">>)
    IN  Responded(version, code, EndHeaders(b3, version))

(* send_head for a path that is not answered as a directory: guess_type   *)
(* is called first; an exception there ends the request with no response. *)
SendFile(version, fspath, exists) ==
    LET g == GuessType(fspath)
        noted == [Blank EXCEPT !.version = version, !.guessed = TRUE,
                               !.gpath = fspath, !.graised = g.raised,
                               !.gtype = g.mimetype]
    IN  IF g.raised THEN [noted EXCEPT !.kind = "no_response"]
        ELSE IF EndsWith(fspath, <<"/">>) \/ ~exists
        THEN [SendError(version, 404) EXCEPT !.guessed = TRUE, !.gpath = fspath,
                                             !.gtype = g.mimetype]
        ELSE LET b0 == SendResponse(version)
                 b1 == SendHeader(b0, version, <<"Content-type", "guessed">>)
                 b2 == SendHeader(b1, version, <<"Content-Length", "n">>)
                 b3 == SendHeader(b2, version, <<"Last-Modified", "mtime">>)
             IN  [noted EXCEPT !.kind = "response", !.status = 200,
                               !.headers = EndHeaders(b3, version)]

(* do_GET / do_HEAD -> send_head.  target is what the path names on disk: *)
(* "file", "missing", "dir_index" (directory holding index.html),         *)
(* "dir_list" (listable directory) or "dir_denied" (listdir fails).       *)
Targets == {"file", "missing", "dir_index", "dir_list", "dir_denied"}

SendHead(version, path, target) ==
    IF target \in {"file", "missing"}
    THEN SendFile(version, path, target = "file")
    ELSE IF ~EndsWith(path, <<"/">>)
    THEN LET b0 == SendResponse(version)
             b1 == SendHeader(b0, version, <<"Location", "path/">>)
             b2 == SendHeader(b1, version, <<"Content-Length", "0">>)
         IN  Responded(version, 301, EndHeaders(b2, version))
    ELSE IF target = "dir_index"
    THEN SendFile(version, path \o IndexName, TRUE)
    ELSE IF target = "dir_denied"
    THEN SendError(version, 404)
    ELSE LET b0 == SendResponse(version)
             b1 == SendHeader(b0, version, <<"Content-type", "text/html; charset=utf-8">>)
             b2 == SendHeader(b1, version, <<"Content-Length", "n">>)
         IN  Responded(version, 200, EndHeaders(b2, version))

(* parse_request rejects the request line.  request_version still holds   *)
(* the default "HTTP/0.9" when send_error runs: 400 for a malformed line,  *)
(* a bad version or a non-GET simple request, 505 for version >= 2.0.     *)
RejectRequestLine ==
    /\ pc = "serving"
    /\ \E code \in {400, 505} : last' = SendError("HTTP/0.9", code)
    /\ UNCHANGED <<platform, argv, invokedFrom, cwd, pc, port, frames, sockets,
                   exitStatus, firstPort, lastTried, nTried, lastBind>>

(* A command without a do_ method (POST, OPTIONS, ...): send_error(501). *)
UnsupportedMethod ==
    /\ pc = "serving"
    /\ \E version \in {"HTTP/1.0", "HTTP/1.1"}, command \in {"POST", "OPTIONS"} :
         last' = SendError(version, 501)
    /\ UNCHANGED <<platform, argv, invokedFrom, cwd, pc, port, frames, sockets,
                   exitStatus, firstPort, lastTried, nTried, lastBind>>

(* 414 for an over-long request line and 431 for over-long or too many   *)
(* header lines are sent with request_version set to something other than *)
(* "HTTP/0.9".                                                            *)
RejectOversized ==
    /\ pc = "serving"
    /\ \E version \in {"HTTP/1.0", "HTTP/1.1"}, code \in {414, 431} :
         last' = SendError(version, code)
    /\ UNCHANGED <<platform, argv, invokedFrom, cwd, pc, port, frames, sockets,
                   exitStatus, firstPort, lastTried, nTried, lastBind>>

(* GET or HEAD (both run send_head; an HTTP/0.9 simple request can only  *)
(* be a GET).                                                             *)
GetOrHead ==
    /\ pc = "serving"
    /\ \E version \in Versions, path \in Paths, target \in Targets :
         last' = SendHead(version, path, target)
    /\ UNCHANGED <<platform, argv, invokedFrom, cwd, pc, port, frames, sockets,
                   exitStatus, firstPort, lastTried, nTried, lastBind>>

Init ==
    /\ platform \in Platforms
    /\ argv \in { <<>> } \cup { <<a>> : a \in ArgStrings }
    /\ invokedFrom \in CallerDirs
    /\ cwd = invokedFrom
    /\ pc = "main"
    /\ port = NoPort
    /\ frames = 1
    /\ sockets = {}
    /\ exitStatus = NotExited
    /\ firstPort = NoPort
    /\ lastTried = NoPort
    /\ nTried = 0
    /\ lastBind = "none"
    /\ last = Blank

Exit(status) ==
    /\ pc' = "exited"
    /\ exitStatus' = status

(* Fault variant of the chdir: the working directory is left alone. *)
ChdirSkipped == cwd

(* os.chdir(os.path.dirname(os.path.abspath(__file__))) *)
ChdirTarget == ScriptDir

(* Fault variant of the argument check: the ValueError branch falls       *)
(* through to the default port instead of exiting.                        *)
PortArgumentFallingBack(args) ==
    IF Len(args) > 0 /\ ParseInt(args[1]).ok THEN ParseInt(args[1])
    ELSE [ok |-> TRUE, val |-> DefaultPort]

(* Lines 64-70: the port is 8000 unless sys.argv[1] is given, and then   *)
(* int(sys.argv[1]); ok = FALSE stands for the ValueError branch.         *)
PortArgument(args) ==
    IF Len(args) > 0 THEN ParseInt(args[1])
    ELSE [ok |-> TRUE, val |-> DefaultPort]

(* The __main__ block: chdir, parse the argument, call start_server(port). *)
Main ==
    /\ pc = "main"
    /\ cwd' = ChdirTarget
    /\ LET parsed == PortArgument(argv)
       IN  IF ~parsed.ok
           THEN /\ Exit(1)
                /\ UNCHANGED <<port, frames, firstPort>>
           ELSE /\ port' = parsed.val
                /\ firstPort' = parsed.val
                /\ frames' = frames + 1
                /\ pc' = "start_server"
                /\ UNCHANGED exitStatus
    /\ UNCHANGED <<platform, argv, invokedFrom, sockets, lastTried, nTried,
                   lastBind, last>>

----------------------------------------------------------------------------
(* start_server(port) *)

(* Fault variant of the errno test: every OSError retries. *)
IsRetryErrnoAny(e) == TRUE

(* `e.errno == 48`: the OSError branch that retries on the next port *)
IsRetryErrno(e) == e = RetryErrno

(* Fault variant of the recursive call: the same port again. *)
NextPortSame(p) == p

(* argument of the recursive call, start_server(port + 1) *)
NextPort(p) == p + 1

(* Fault variant of the failed construction: the socket stays open. *)
AfterFailedBindLeaking(held, p) == held

(* The server socket of a TCPServer whose server_bind raised: __init__    *)
(* calls server_close() before re-raising.                                *)
AfterFailedBind(held, p) == held \ {p}

(* Leaving the `with TCPServer(...)` block calls server_close(). *)
AfterWithExit(held, p) == held \ {p}

(* A construction is attempted whenever the frames of TCPServer.__init__  *)
(* still fit under the interpreter's recursion limit.                     *)
CanConstruct == frames + CtorFrames <= RecursionLimit

RecordAttempt ==
    /\ lastTried' = port
    /\ nTried' = nTried + 1

(* Lines 37-47: bind succeeds, the banner is printed, serve_forever runs. *)
BindSucceeds ==
    /\ pc = "start_server"
    /\ CanConstruct
    /\ port \in 0..MaxPort
    /\ RecordAttempt
    /\ sockets' = sockets \cup {port}
    /\ lastBind' = "ok"
    /\ pc' = "serving"
    /\ UNCHANGED <<platform, argv, invokedFrom, cwd, port, frames, exitStatus,
                   firstPort, last>>

(* Lines 51-57: bind raises OSError; errno 48 recurses on the next port,  *)
(* provided the call still fits on the stack, anything else is exit(1).   *)
BindFailsOSError ==
    /\ pc = "start_server"
    /\ CanConstruct
    /\ port \in 0..MaxPort
    /\ \E reason \in BindFailureReasons :
         /\ RecordAttempt
         /\ sockets' = AfterFailedBind(sockets \cup {port}, port)
         /\ lastBind' = reason
         /\ IF IsRetryErrno(ErrnoOf(platform, reason))
            THEN IF frames + 1 <= RecursionLimit
                 THEN /\ port' = NextPort(port)
                      /\ frames' = frames + 1
                      /\ UNCHANGED <<pc, exitStatus>>
                 ELSE /\ Exit(1)
                      /\ UNCHANGED <<port, frames>>
            ELSE /\ Exit(1)
                 /\ UNCHANGED <<port, frames>>
    /\ UNCHANGED <<platform, argv, invokedFrom, cwd, firstPort, last>>

(* socket.bind rejects a port outside 0..65535 with OverflowError, which  *)
(* neither except clause catches: traceback, exit status 1.               *)
BindOverflows ==
    /\ pc = "start_server"
    /\ CanConstruct
    /\ port \notin 0..MaxPort
    /\ RecordAttempt
    /\ sockets' = AfterFailedBind(sockets \cup {port}, port)
    /\ lastBind' = "overflow"
    /\ Exit(1)
    /\ UNCHANGED <<platform, argv, invokedFrom, cwd, port, frames, firstPort, last>>

(* The stack is too deep to construct another TCPServer: RecursionError,  *)
(* which neither except clause catches.                                   *)
RecursionErrorRaised ==
    /\ pc = "start_server"
    /\ ~CanConstruct
    /\ lastBind' = "recursion"
    /\ Exit(1)
    /\ UNCHANGED <<platform, argv, invokedFrom, cwd, port, frames, sockets,
                   firstPort, lastTried, nTried, last>>

(* Fault variant of the interrupt path: KeyboardInterrupt is not caught   *)
(* and the interpreter ends with status 1.                                *)
InterruptUncaught ==
    /\ pc = "serving"
    /\ sockets' = AfterWithExit(sockets, port)
    /\ frames' = 0
    /\ Exit(1)
    /\ UNCHANGED <<platform, argv, invokedFrom, cwd, port, firstPort, lastTried,
                   nTried, lastBind, last>>

(* Lines 49-50: KeyboardInterrupt inside serve_forever.  The with block   *)
(* closes the server, the handler prints, every start_server frame        *)
(* returns and the script ends.  Interrupts are modelled in the serve     *)
(* loop only, where the process spends its life.                          *)
Interrupt ==
    /\ pc = "serving"
    /\ sockets' = AfterWithExit(sockets, port)
    /\ frames' = 0
    /\ Exit(0)
    /\ UNCHANGED <<platform, argv, invokedFrom, cwd, port, firstPort, lastTried,
                   nTried, lastBind, last>>

Startup == Main \/ BindSucceeds \/ BindFailsOSError \/ BindOverflows
              \/ RecursionErrorRaised

Next ==
    \/ Main
    \/ BindSucceeds
    \/ BindFailsOSError
    \/ BindOverflows
    \/ RecursionErrorRaised
    \/ Interrupt
    \/ RejectRequestLine
    \/ RejectOversized
    \/ UnsupportedMethod
    \/ GetOrHead

Spec == Init /\ [][Next]_vars

(* Startup code runs straight through: no step of it waits on anything. *)
FairSpec == Spec /\ WF_vars(Startup)
----------------------------------------------------------------------------
(* Properties *)

HasFixedHeaders(headers) ==
    \A i \in 1..Len(FixedHeaders) :
        \E j \in 1..Len(headers) : headers[j] = FixedHeaders[i]

C2_InUseRetriesNextPort ==
    lastBind = "in_use"
        => /\ pc = "start_server"
           /\ exitStatus = NotExited
           /\ port = lastTried + 1

(* The int() literal grammar, stated on the string: optional surrounding  *)
(* spaces, an optional sign, digits with single underscores between them. *)
IsIntLiteral(s) ==
    \E a \in 1..Len(s), b \in 1..Len(s) :
        /\ a <= b
        /\ \A i \in 1..Len(s) : (i < a \/ i > b) => s[i] \in SpaceChars
        /\ LET d == IF s[a] \in SignChars THEN a + 1 ELSE a
           IN  /\ d <= b
               /\ s[d] \in DigitChars
               /\ s[b] \in DigitChars
               /\ \A i \in d..b : s[i] \in DigitChars \cup {"_"}
               /\ \A i \in d..(b - 1) : ~(s[i] = "_" /\ s[i + 1] = "_")

NonNumericArgument == Len(argv) > 0 /\ ~IsIntLiteral(argv[1])

(* C3: with a port argument that is not numeric the process never binds:  *)
(* it is either still before the argument check or has exited with        *)
(* status 1, no bind was attempted and no socket is held.                 *)
C3_NonNumericNeverBinds ==
    NonNumericArgument
        => /\ pc \in {"main", "exited"}
           /\ pc = "exited" => exitStatus = 1
           /\ nTried = 0
           /\ sockets = {}

C3_Witness ==
    /\ NonNumericArgument
    /\ argv[1] = <<"a", "7">>
    /\ pc = "exited"
    /\ exitStatus = 1

(* C4: once the serve loop was entered, the process only ends with exit   *)
(* status 0 and the listener closed, and no request is handled after it   *)
(* has ended.                                                             *)
C4_InterruptExitsZero ==
    /\ [](pc = "exited" /\ lastBind = "ok" => exitStatus = 0 /\ sockets = {})
    /\ [][pc = "exited" => (last' = last /\ sockets' = sockets)]_vars

C4_Witness ==
    /\ pc = "exited"
    /\ lastBind = "ok"
    /\ exitStatus = 0
    /\ nTried >= 3
    /\ last.kind = "response"

OtherBindFailures == BindFailureReasons \ {"in_use"}

(* C5: a bind failure for a reason other than address in use ends the     *)
(* process with status 1; the serve loop is not entered and no further    *)
(* bind attempt follows.                                                  *)
C5_OtherBindFailureExits ==
    /\ [](lastBind \in OtherBindFailures
            => pc = "exited" /\ exitStatus = 1 /\ sockets = {})
    /\ [][(lastBind \in OtherBindFailures) => nTried' = nTried]_vars

C5_Witness ==
    /\ lastBind = "denied"
    /\ platform = "darwin"
    /\ nTried >= 2
    /\ pc = "exited"
    /\ exitStatus = 1

ExpectedType(path) ==
    IF EndsWith(path, DotJs) THEN ApplicationJavascript
    ELSE IF EndsWith(path, DotWasm) THEN ApplicationWasm
    ELSE SuperGuessType(path)

(* C6: whenever a content type is inferred for a path, the result is      *)
(* application/javascript for .js, application/wasm for .wasm and the     *)
(* delegate's guess otherwise.                                            *)
C6_InferredTypeFollowsPolicy ==
    last.guessed => (~last.graised /\ last.gtype = ExpectedType(last.gpath))

(* C7: every port passed to a bind attempt lies in 1..65535. *)
C7_TriedPortsAreValid ==
    nTried > 0 => lastTried \in 1..MaxPort

(* C8: whenever a bind was attempted, a socket is held or a request was   *)
(* handled, the working directory is the entry point's directory.         *)
C8_ServesFromScriptDir ==
    (nTried > 0 \/ sockets # {} \/ last.kind # "none") => cwd = ScriptDir

C8_Witness ==
    /\ invokedFrom # ScriptDir
    /\ pc = "serving"
    /\ sockets # {}
    /\ last.kind = "response"
    /\ cwd = ScriptDir

(* C9: at most one server socket is held; none is held when a retry is    *)
(* pending or after the process has ended; nothing is handled once the    *)
(* process has ended.                                                     *)
C9_SingleListenerReleased ==
    /\ [](Cardinality(sockets) <= 1)
    /\ [](pc \in {"start_server", "exited"} => sockets = {})
    /\ [][pc = "exited" => last' = last]_vars

C9_Witness ==
    /\ pc = "serving"
    /\ nTried >= 3
    /\ lastBind = "ok"
    /\ sockets = {port}

(* C10: startup ends, serving or exited, and each bind attempt after the  *)
(* first is on a strictly larger port than the one before.                *)
C10_StartupTerminates ==
    /\ <>(pc \in {"serving", "exited"})
    /\ [][(nTried > 0 /\ nTried' # nTried) => lastTried' > lastTried]_vars

C10_Witness ==
    /\ pc = "exited"
    /\ lastBind = "overflow"
    /\ firstPort = MaxPort
    /\ nTried = 2
====
